---- MODULE Spec2Model ----
(***************************************************************************)
(* Model of the blender-synth scene-to-annotation pipeline:                *)
(*   SyntheticGenerator (pipeline/generator.py), YOLOAnnotator             *)
(*   (annotation/yolo.py), ModelLoader (objects/loader.py),                *)
(*   PhysicsSimulator (core/physics.py), LightingRandomizer                *)
(*   (randomization/lighting.py), CameraOrbit (core/camera.py),            *)
(*   SceneManager (core/scene.py), GenerationConfig (pipeline/config.py)   *)
(*   and the generate command (worker.py).                                 *)
(*                                                                         *)
(* Units.  Lengths of the 3D scene are integers in millimetres.  A ratio   *)
(* of the dataset split is an integer number of hundredths.  A normalised  *)
(* annotation field, which the code formats with six decimals, is the      *)
(* integer number of millionths that the formatted text denotes.           *)
(***************************************************************************)
EXTENDS Integers, Sequences, FiniteSets, TLC

VARIABLES
    config,        \* GenerationConfig of the current process
    model_dir,     \* class sub-directories of the model directory holding model files
    phase,         \* position of the (single) thread of control
    runs,          \* number of generator processes started so far
    images,        \* [split -> set of file stems in <output>/<split>/images]
    labels,        \* [split -> set of [stem, lines] in <output>/<split>/labels]
    outfiles,      \* files directly under <output>: classes.txt, config.yaml
    start_idx,     \* _train_start_idx, _val_start_idx, _test_start_idx
    num,           \* num_train, num_val, num_test of generate()
    split,         \* index into Splits of the split being generated
    i,             \* loop variable of _generate_split
    attempt,       \* loop variable of _generate_single_image
    objects,       \* the local list `objects` of _attempt_generate_image
    segmap,        \* data["instance_segmaps"][0] of the current attempt
    annotations,   \* the local list `annotations` of _attempt_generate_image
    scene,         \* the engine's scene: objects loaded, mesh objects and lights still
                   \* present, the attempt that registered the camera pose of frame 0
    lights,        \* LightingRandomizer.lights: the lights it tracks, in creation order
    atStart,       \* history: images and labels when the generator was constructed
    written,       \* history: files written by the current run
    attempted,     \* history: image indices handed to _generate_single_image in this run
    last,          \* history: outcome of the _generate_single_image call that just returned
    tries,         \* history: calls of _attempt_generate_image for the current image
    onlyEmpty,     \* history: every failure of the current image was an empty annotation list
    matches,       \* history: (object, instance id) pairs matched in the current attempt
    class_names,   \* ModelLoader.class_names
    instance_counter, \* ModelLoader._instance_counter
    draws,         \* history: the draws of the last load_random_models call
    classes_txt,   \* the lines of <output>/classes.txt
    summary,       \* the content of generation_summary.json of the current run
    exit_code,     \* the value main() of the worker returned, Running before that
    calls,         \* history: engine calls completed in the current attempt, in order
    abandoned,     \* history: image indices given up after the last attempt, this run
    labelled       \* history: (class_id, class name) of the label lines of this run

vars == <<config, model_dir, phase, runs, images, labels, outfiles, start_idx, num,
          split, i, attempt, objects, segmap, annotations, scene, lights, atStart,
          written,
          attempted, last, tries, onlyEmpty, matches, class_names, instance_counter,
          draws, classes_txt, summary, exit_code, calls, abandoned, labelled>>

(***************************************************************************)
(* Bounds of the model                                                     *)
(***************************************************************************)
MaxImages == 2      \* largest num_images of a run of Spec
MaxRuns == 2        \* generator processes run against one output directory
MaxObjects == 2     \* largest max_per_scene of SceneSpec
MaxWidth == 3       \* largest image width of SceneSpec
MaxHeight == 2      \* largest image height of SceneSpec
MaxTotal == 12      \* largest num_images of SplitSpec

(***************************************************************************)
(* Program constants                                                       *)
(***************************************************************************)
max_retries == 5
BoundXY == 1000          \* abs(loc[0]) < 1.0, abs(loc[1]) < 1.0
SettleThreshold == 15    \* loc[2] < 0.015
SettleHeight == 20       \* new_z = 0.02
Million == 1000000       \* six decimals

Splits == <<"train", "val", "test">>
SplitNames == {"train", "val", "test"}

Max(S) == CHOOSE x \in S : \A y \in S : y <= x
Min(S) == CHOOSE x \in S : \A y \in S : x <= y

(***************************************************************************)
(* File names.  A stem is the sequence of its underscore-separated parts;  *)
(* a part is a word or a run of w decimal digits denoting v.               *)
(***************************************************************************)
Word(s) == [k |-> s, w |-> 0, v |-> 0]
Numeral(w, v) == [k |-> "num", w |-> w, v |-> v]

RECURSIVE NumDigits(_)
NumDigits(n) == IF n < 10 THEN 1 ELSE 1 + NumDigits(n \div 10)

\* f"{image_idx:06d}": zero padded to six digits, more digits when needed
Format06(idx) == Numeral(IF NumDigits(idx) > 6 THEN NumDigits(idx) ELSE 6, idx)

\* f"{split_name}_{image_idx:06d}"
ImageName(split_name, image_idx) == <<Word(split_name), Format06(image_idx)>>

(***************************************************************************)
(* SyntheticGenerator._get_next_index                                      *)
(***************************************************************************)
\* images_dir.glob(f"{split_name}_*.jpg"): the name starts with the split name and "_"
GlobMatches(split_name, stem) == Len(stem) >= 2 /\ stem[1] = Word(split_name)

\* int(filename.split('_')[-1]) succeeds exactly on a run of digits
IsInt(part) == part.k = "num"

\* plausible slip: the next index taken as the number of existing images
GetNextIndexByCount(images_dir, split_name) ==
    Cardinality({stem \in images_dir : GlobMatches(split_name, stem)})

GetNextIndex(images_dir, split_name) ==
    LET existing_images == {stem \in images_dir : GlobMatches(split_name, stem)}
        indices == {stem[Len(stem)].v :
                       stem \in {e \in existing_images : IsInt(e[Len(e)])}}
    IN  IF existing_images = {} THEN 0
        ELSE IF indices # {} THEN Max(indices) + 1
        ELSE 0

(***************************************************************************)
(* DatasetConfig validation and the split sizes of generate()              *)
(***************************************************************************)
\* Field(ge=0, le=1) on each ratio and validate_splits_sum_to_one
ValidDataset(train_split, val_split, test_split) ==
    /\ train_split \in 0..100 /\ val_split \in 0..100 /\ test_split \in 0..100
    /\ 99 <= test_split + train_split + val_split
    /\ test_split + train_split + val_split <= 101

\* CameraConfig.validate_range: `if v[0] >= v[1]: raise ValueError`
ValidateRange(v) == ~(v[1] >= v[2])

\* a field declared Tuple[number, number] with no validator: any pair is accepted
IsPair(v) == Len(v) = 2

\* CameraConfig: validate_range on nadir_angle_range and distance_range, ge=1 on
\* orbit_angles
ValidCamera(data) ==
    /\ IsPair(data.nadir_angle_range) /\ ValidateRange(data.nadir_angle_range)
    /\ IsPair(data.distance_range) /\ ValidateRange(data.distance_range)
    /\ data.orbit_angles >= 1

\* LightingConfig declares no validator
ValidLighting(data) ==
    /\ IsPair(data.num_lights)
    /\ IsPair(data.intensity_range)
    /\ IsPair(data.color_temp_range)

\* ModelConfig: ge=1 on max_per_scene and min_per_scene, validate_min_max, and no
\* validator on scale_range
ValidModels(data) ==
    /\ data.max_per_scene >= 1
    /\ data.min_per_scene >= 1
    /\ ~(data.min_per_scene > data.max_per_scene)
    /\ IsPair(data.scale_range)

\* GenerationConfig(**data): ge=1 on num_images and the validation of each part
ValidGeneration(data) ==
    /\ data.num_images >= 1
    /\ ValidCamera(data)
    /\ ValidLighting(data)
    /\ ValidModels(data)
    /\ ValidDataset(data.train_split, data.val_split, data.test_split)

\* int(num_images * ratio): truncation of a non-negative product
IntMul(num_images, ratio) == (num_images * ratio) \div 100

NumTrain(cfg) == IntMul(cfg.num_images, cfg.train_split)

NumVal(cfg) == IntMul(cfg.num_images, cfg.val_split)

\* plausible slip: the test count truncated from its own ratio like the other two
NumTestFromRatio(cfg) == IntMul(cfg.num_images, cfg.test_split)

NumTest(cfg) == cfg.num_images - NumTrain(cfg) - NumVal(cfg)

(***************************************************************************)
(* YOLOAnnotator                                                           *)
(***************************************************************************)
\* A segmentation map is a function from pixels <<y, x>> (0-based) to instance ids.
Pixels(width, height) == (0..(height - 1)) \X (0..(width - 1))

NoBBox == <<>>

\* plausible slip: the degenerate-box test dropped
MaskToBBoxUnchecked(mask) ==
    IF mask = {} THEN NoBBox
    ELSE <<Min({p[2] : p \in mask}), Min({p[1] : p \in mask}),
           Max({p[2] : p \in mask}), Max({p[1] : p \in mask})>>

\* _mask_to_bbox; mask is the set of true pixels (np.argwhere(mask))
MaskToBBox(mask) ==
    IF mask = {} THEN NoBBox
    ELSE LET y_min == Min({p[1] : p \in mask})
             x_min == Min({p[2] : p \in mask})
             y_max == Max({p[1] : p \in mask})
             x_max == Max({p[2] : p \in mask})
         IN  IF x_max <= x_min \/ y_max <= y_min THEN NoBBox
             ELSE <<x_min, y_min, x_max, y_max>>

\* f"{value:.6f}" of the quotient n/d (n >= 0, d > 0): the nearest millionth,
\* a tie going to the even one
Format6(n, d) ==
    LET q == (n * Million) \div d
        r == (n * Million) % d
    IN  IF 2 * r < d THEN q
        ELSE IF 2 * r > d THEN q + 1
        ELSE IF q % 2 = 0 THEN q ELSE q + 1

\* plausible slip: the extent counted in pixels (x_max - x_min + 1) and the centre
\* taken from x_max
BBoxToYoloFormatShifted(bbox, class_id, image_width, image_height) ==
    LET width == bbox[3] - bbox[1] + 1
        height == bbox[4] - bbox[2] + 1
    IN  [class_id |-> class_id,
         x_center |-> Format6(2 * bbox[3] + width, 2 * image_width),
         y_center |-> Format6(2 * bbox[4] + height, 2 * image_height),
         width |-> Format6(width, image_width),
         height |-> Format6(height, image_height)]

\* bbox_to_yolo_format: x_center = x_min + width / 2, each field divided by the
\* image dimension and formatted with six decimals
BBoxToYoloFormat(bbox, class_id, image_width, image_height) ==
    LET x_min == bbox[1]
        y_min == bbox[2]
        x_max == bbox[3]
        y_max == bbox[4]
        width == x_max - x_min
        height == y_max - y_min
    IN  [class_id |-> class_id,
         x_center |-> Format6(2 * x_min + width, 2 * image_width),
         y_center |-> Format6(2 * y_min + height, 2 * image_height),
         width |-> Format6(width, image_width),
         height |-> Format6(height, image_height)]

\* int(v) of the quotient n/d (d > 0): truncation toward zero
TruncDiv(n, d) == IF n >= 0 THEN n \div d ELSE -((-n) \div d)

\* The decoding of one label line by _visualize_single_image: the fields are read
\* back as the numbers their text denotes, scaled by the image size, and the corners
\* x_center -/+ box_width / 2 truncated by int().
DecodeLine(line, image_width, image_height) ==
    LET x_center == line.x_center * image_width
        y_center == line.y_center * image_height
        box_width == line.width * image_width
        box_height == line.height * image_height
    IN  [class_id |-> line.class_id,
         x_min |-> TruncDiv(2 * x_center - box_width, 2 * Million),
         y_min |-> TruncDiv(2 * y_center - box_height, 2 * Million),
         x_max |-> TruncDiv(2 * x_center + box_width, 2 * Million),
         y_max |-> TruncDiv(2 * y_center + box_height, 2 * Million)]

(***************************************************************************)
(* SyntheticGenerator._generate_annotations_from_data                      *)
(***************************************************************************)
NoData == <<>>

\* np.unique(seg_data) without the background 0
UniqueInstances(seg_data) == {seg_data[p] : p \in DOMAIN seg_data} \ {0}

\* instance_id = idx + 2, idx the position in the list handed to the method
InstanceId(idx) == idx + 2

\* plausible slip: `break` where the code has `continue`
StopAtFirstSkip(skipped) == skipped

\* the loop goes on to the next object after an object was skipped
LoopEndsAfter(skipped) == FALSE

\* The for loop over enumerate(objects); idx is 0-based, acc the records appended so
\* far, each kept with the object and the instance id it came from.
RECURSIVE AnnotationLoop(_, _, _, _, _, _)
AnnotationLoop(seg_data, objs, idx, acc, image_width, image_height) ==
    IF idx >= Len(objs) THEN acc
    ELSE LET obj == objs[idx + 1]
             instance_id == InstanceId(idx)
             mask == {p \in DOMAIN seg_data : seg_data[p] = instance_id}
             bbox == MaskToBBox(mask)
             skip == \/ instance_id \notin UniqueInstances(seg_data)
                     \/ mask = {}
                     \/ bbox = NoBBox
         IN  IF skip
             THEN IF LoopEndsAfter(TRUE) THEN acc
                  ELSE AnnotationLoop(seg_data, objs, idx + 1, acc,
                                      image_width, image_height)
             ELSE AnnotationLoop(seg_data, objs, idx + 1,
                      Append(acc, [ann |-> BBoxToYoloFormat(bbox, obj.class_id,
                                                          image_width, image_height),
                                   loadpos |-> obj.loadpos,
                                   listpos |-> idx,
                                   inst |-> instance_id]),
                      image_width, image_height)

GenerateAnnotationsFromData(seg_data, objs, image_width, image_height) ==
    IF seg_data = NoData THEN <<>>
    ELSE AnnotationLoop(seg_data, objs, 0, <<>>, image_width, image_height)

(***************************************************************************)
(* The render engine: the instance segmentation maps a render can return.  *)
(* The background is 0 or the surface 1; every other instance that the     *)
(* scene may hold covers nothing or a rectangle, later ones in front.      *)
(***************************************************************************)
Rects(width, height) ==
    {r \in (0..(width - 1)) \X (0..(height - 1)) \X (0..(width - 1)) \X (0..(height - 1)) :
        r[1] <= r[3] /\ r[2] <= r[4]}

Paint(seg, id, r) ==
    [p \in DOMAIN seg |->
        IF r[1] <= p[2] /\ p[2] <= r[3] /\ r[2] <= p[1] /\ p[1] <= r[4]
        THEN id ELSE seg[p]]

RECURSIVE PaintAll(_, _, _, _)
PaintAll(maps, id, top, rects) ==
    IF id > top THEN maps
    ELSE PaintAll(maps \cup {Paint(m, id, r) : m \in maps, r \in rects},
                  id + 1, top, rects)

RenderOutputs(nloaded, width, height) ==
    {NoData} \cup
    PaintAll({[p \in Pixels(width, height) |-> 0], [p \in Pixels(width, height) |-> 1]},
             2, nloaded + 1, Rects(width, height))

(***************************************************************************)
(* ModelLoader.discover_models                                             *)
(***************************************************************************)
\* the class directory names of the model, in ascending order of Python's str
ClassDirs == <<"awl", "blade", "kit">>

\* a < b on the names of ClassDirs
Before(a, b) ==
    \E m, n \in DOMAIN ClassDirs : ClassDirs[m] = a /\ ClassDirs[n] = b /\ m < n

\* the orders in which iterdir() can list the class directories that hold a model
Listings(dir) ==
    {l \in [1..Cardinality(dir) -> dir] :
        \A m, n \in 1..Cardinality(dir) : m # n => l[m] # l[n]}

\* sorted(names): insertion of each name before the first larger one
RECURSIVE Insert(_, _)
Insert(name, sorted) ==
    IF sorted = <<>> THEN <<name>>
    ELSE IF Before(name, Head(sorted)) THEN <<name>> \o sorted
    ELSE <<Head(sorted)>> \o Insert(name, Tail(sorted))

RECURSIVE Sorted(_)
Sorted(names) ==
    IF names = <<>> THEN <<>> ELSE Insert(Head(names), Sorted(Tail(names)))

\* plausible slip: the class names kept in the order of the directory listing
ClassNamesAsListed(listing) == listing

\* self.class_names = sorted(class_models.keys())
DiscoverModels(listing) == Sorted(listing)

\* self.class_names.index(class_name), 0-based
IndexOf(names, name) == (CHOOSE k \in DOMAIN names : names[k] = name) - 1

(***************************************************************************)
(* State of the run                                                        *)
(***************************************************************************)
AttemptPhases == {"compose", "drop", "validate", "render", "annotate",
                  "save_image", "save_labels", "cleanup"}

SplitName == Splits[split]

\* plausible slip: the offset of the start index forgotten
ImageIdxFromZero == i

\* image_idx = start_idx + i and image_name of _generate_split
ImageIdx == start_idx[SplitName] + i

CurrentName == ImageName(SplitName, ImageIdx)

\* the attempt that registered the camera pose of the first frame of the engine
NoFrame == "none"

ThisAttempt == "this_attempt"

EarlierAttempt == "earlier_attempt"

EmptyScene == [surface |-> FALSE, loaded |-> 0, meshes |-> {}, lights |-> 0,
               frame0 |-> NoFrame]

NoFiles == [s \in SplitNames |-> {}]

NoResult == [split |-> "none", idx |-> 0, tries |-> 0, ok |-> FALSE, kind |-> "none",
             onlyEmpty |-> FALSE]

\* a line written by an earlier run
PriorLine == [class_id |-> 0, x_center |-> 250000, y_center |-> 250000,
              width |-> 500000, height |-> 500000]

\* the images and labels directories left by earlier runs that wrote the images idxs
PriorImages(split_name, idxs) == {ImageName(split_name, k) : k \in idxs}

PriorLabels(split_name, idxs) ==
    {[stem |-> ImageName(split_name, k), lines |-> <<PriorLine>>] : k \in idxs}

\* ratio triples, in hundredths, that DatasetConfig accepts
RatioCases == {r \in {<<70, 15, 15>>, <<100, 0, 0>>, <<50, 50, 0>>, <<0, 50, 50>>} :
                  ValidDataset(r[1], r[2], r[3])}

\* output directories left by earlier runs: <<train indices, val indices>>
DirCases == {<<{}, {}>>, <<0..4, {}>>, <<0..4, {3}>>, <<{0, 2}, {3}>>}

\* model directories: no class with a supported model file, or one class
ModelDirCases == {{}, {"awl"}}

Locals == <<objects, segmap, annotations, matches>>

History == <<atStart, written, attempted, last, tries, onlyEmpty>>

Files == <<images, labels, outfiles>>

Loop == <<split, i, attempt>>

Env == <<config, model_dir, runs>>

Loader == <<class_names, instance_counter, draws>>

Outcome == <<classes_txt, summary, exit_code>>

NoSummary == [total_images |-> -1, train_images |-> -1, val_images |-> -1,
              test_images |-> -1, num_classes |-> -1, class_names |-> <<>>]

\* exit_code while main() has not returned
Running == -1

\* a completed call of the engine or of a component, and the deletion of an object
Call(op) == <<op, -1>>

Delete(loadpos) == <<"delete", loadpos>>

(***************************************************************************)
(* Init: a validated configuration, and an output directory as earlier     *)
(* runs can have left it (images with their labels, index gaps allowed).   *)
(***************************************************************************)
InitCommon ==
    /\ runs = 0
    /\ outfiles = {}
    /\ start_idx = [s \in SplitNames |-> 0]
    /\ num = [s \in SplitNames |-> 0]
    /\ split = 1
    /\ i = 0
    /\ attempt = 0
    /\ objects = <<>>
    /\ segmap = NoData
    /\ annotations = <<>>
    /\ scene = EmptyScene
    /\ lights = <<>>
    /\ atStart = [images |-> NoFiles, labels |-> NoFiles]
    /\ written = {}
    /\ attempted = <<>>
    /\ last = NoResult
    /\ tries = 0
    /\ onlyEmpty = TRUE
    /\ matches = <<>>
    /\ class_names = <<>>
    /\ instance_counter = 0
    /\ draws = <<>>
    /\ classes_txt = <<>>
    /\ summary = NoSummary
    /\ exit_code = Running
    /\ calls = <<>>
    /\ abandoned = {}
    /\ labelled = {}

Init ==
    /\ InitCommon
    /\ phase = "idle"
    /\ model_dir \in ModelDirCases
    /\ \E n \in 1..MaxImages, r \in RatioCases, c \in {"missing", "True", "False"} :
          config = [num_images |-> n,
                    train_split |-> r[1], val_split |-> r[2], test_split |-> r[3],
                    width |-> 2, height |-> 2,
                    min_per_scene |-> 1, max_per_scene |-> 1,
                    orbit_angles |-> 8, num_lights |-> <<2, 3>>,
                    physics_enabled |-> TRUE,
                    clear_output_dir |-> c]
    /\ \E d \in DirCases :
          /\ images = [s \in SplitNames |->
                          IF s = "train" THEN PriorImages(s, d[1])
                          ELSE IF s = "val" THEN PriorImages(s, d[2]) ELSE {}]
          /\ labels = [s \in SplitNames |->
                          IF s = "train" THEN PriorLabels(s, d[1])
                          ELSE IF s = "val" THEN PriorLabels(s, d[2]) ELSE {}]

(***************************************************************************)
(* SyntheticGenerator.__init__                                             *)
(***************************************************************************)
Construct ==
    /\ phase = "idle"
    /\ runs' = runs + 1
    /\ atStart' = [images |-> images, labels |-> labels]
    /\ written' = {}
    /\ attempted' = <<>>
    /\ last' = NoResult
    /\ abandoned' = {}
    /\ labelled' = {}
    /\ calls' = <<>>
    /\ summary' = NoSummary
    /\ instance_counter' = 0
    /\ draws' = <<>>
    /\ IF config.clear_output_dir = "missing"
       THEN \* config.clear_output_dir raises AttributeError, main() returns 1
            /\ phase' = "crashed"
            /\ exit_code' = 1
            /\ class_names' = <<>>
            /\ UNCHANGED <<Files, start_idx, classes_txt>>
       ELSE /\ phase' = "ready"
            /\ IF config.clear_output_dir = "True"
               THEN \* shutil.rmtree(output_dir), then _create_output_structure
                    /\ images' = NoFiles
                    /\ labels' = NoFiles
                    /\ outfiles' = {}
                    /\ classes_txt' = <<>>
               ELSE UNCHANGED <<Files, classes_txt>>
            /\ start_idx' = [s \in SplitNames |-> GetNextIndex(images'[s], s)]
            \* self.model_loader.discover_models()
            /\ \E listing \in Listings(model_dir) : class_names' = DiscoverModels(listing)
            /\ UNCHANGED exit_code
    \* a new process: the engine starts empty, LightingRandomizer tracks no light
    /\ scene' = EmptyScene
    /\ lights' = <<>>
    /\ UNCHANGED <<config, model_dir, num, Loop, Locals, tries, onlyEmpty>>

(***************************************************************************)
(* SyntheticGenerator.generate and _generate_split                         *)
(***************************************************************************)
GenerateBegin ==
    /\ phase = "ready"
    /\ num' = [s \in SplitNames |->
                  IF s = "train" THEN NumTrain(config)
                  ELSE IF s = "val" THEN NumVal(config)
                  ELSE NumTest(config)]
    /\ split' = 1
    /\ i' = 0
    /\ phase' = "split"
    /\ UNCHANGED <<Env, Files, start_idx, attempt, Locals, scene, lights, History,
                   Loader, Outcome, calls, abandoned, labelled>>

\* `for i in range(num_images)` has no further value after k values
RangeExhausted(k, n) == k >= n

\* one iteration of `for i in range(num_images)`: _generate_single_image is called
BeginImage ==
    /\ phase = "split"
    /\ ~RangeExhausted(i, num[SplitName])
    /\ attempted' = Append(attempted, <<SplitName, ImageIdx>>)
    /\ attempt' = 0
    /\ tries' = 1
    /\ onlyEmpty' = TRUE
    /\ last' = NoResult
    /\ phase' = "compose"
    /\ UNCHANGED <<Env, Files, start_idx, num, split, i, Locals, scene, lights,
                   atStart, written, Loader, Outcome, calls, abandoned, labelled>>

\* range(num_images) is exhausted: the next _generate_split call, or the end
EndSplit ==
    /\ phase = "split"
    /\ RangeExhausted(i, num[SplitName])
    /\ IF split < Len(Splits)
       THEN /\ split' = split + 1
            /\ i' = 0
            /\ phase' = "split"
       ELSE /\ phase' = "finish"
            /\ UNCHANGED <<split, i>>
    /\ attempt' = 0
    /\ tries' = 0
    /\ onlyEmpty' = TRUE
    /\ last' = NoResult
    /\ UNCHANGED <<Env, Files, start_idx, num, Locals, scene, lights,
                   atStart, written, attempted, Loader, Outcome, calls, abandoned,
                   labelled>>

(***************************************************************************)
(* SyntheticGenerator._generate_single_image: the retry loop               *)
(***************************************************************************)
\* plausible slip: an off-by-one bound that lets a sixth attempt run
LoopContinuesInclusive(att) == att + 1 <= max_retries

\* `for attempt in range(max_retries)` has another iteration after attempt att
LoopContinues(att) == att + 1 < max_retries

\* The attempt returned False or raised: the next iteration, or the error log and return.
FailAttempt(kind) ==
    /\ objects' = <<>>
    /\ segmap' = NoData
    /\ annotations' = <<>>
    /\ matches' = <<>>
    /\ IF LoopContinues(attempt)
       THEN /\ attempt' = attempt + 1
            /\ tries' = tries + 1
            /\ onlyEmpty' = (onlyEmpty /\ kind = "empty")
            /\ phase' = "compose"
            /\ UNCHANGED <<i, last, abandoned>>
       ELSE /\ last' = [split |-> SplitName, idx |-> ImageIdx, tries |-> tries,
                        ok |-> FALSE, kind |-> kind,
                        onlyEmpty |-> (onlyEmpty /\ kind = "empty")]
            /\ abandoned' = abandoned \cup {<<SplitName, ImageIdx>>}
            /\ i' = i + 1
            /\ phase' = "split"
            /\ onlyEmpty' = TRUE
            /\ UNCHANGED <<attempt, tries>>

\* plausible slip: no `except` clause, the exception leaves generate()
StepRaisesUncaught ==
    /\ phase \in AttemptPhases
    /\ phase' = "crashed"
    /\ UNCHANGED <<Env, Files, start_idx, num, Loop, Locals, scene, lights, History,
                   Loader, Outcome, calls, abandoned, labelled>>

\* any step of the attempt raises an exception, caught by `except Exception`
StepRaises ==
    /\ phase \in AttemptPhases
    /\ FailAttempt("exception")
    /\ UNCHANGED <<Env, Files, start_idx, num, split, scene, lights,
                   atStart, written, attempted, Loader, Outcome, calls, labelled>>

(***************************************************************************)
(* ModelLoader.load_random_models                                          *)
(***************************************************************************)
\* number of mesh objects that one model file imports as (none: the draw is skipped)
MeshCounts == {0, 1}

\* the class whose model file holds two meshes (a .glb scene of two parts, an .obj
\* of two objects): _load_model returns every mesh object of the import
MultiMeshClass == "kit"

MeshCountsOf(class_name) ==
    IF class_name = MultiMeshClass THEN MeshCounts \cup {2} ELSE MeshCounts

\* the importer of the model file raises an exception
ImporterRaises == -1

LoadOutcomes(class_name) == {ImporterRaises} \cup MeshCountsOf(class_name)

\* np.random.choice(self.class_names), then _load_model on a model of that class
Draws(names) ==
    UNION {{<<names[k], o>> : o \in LoadOutcomes(names[k])} : k \in DOMAIN names}

\* reset_instance_counter: self._instance_counter = 0
ResetInstanceCounter == 0

\* The loop over the draws; a draw is <<class_name, outcome of _load_model>>.  The
\* objects are kept in load order, each with the class index of its name and the
\* value of _instance_counter after its increment.  _load_model is called outside
\* any try block: a draw whose importer raises ends the loop with that exception.
RECURSIVE LoadDraws(_, _, _, _)
LoadDraws(names, drawn, d, loaded_objects) ==
    IF d > Len(drawn)
    THEN [objs |-> loaded_objects, raised |-> FALSE, made |-> Len(drawn)]
    ELSE IF drawn[d][2] = ImporterRaises
         THEN [objs |-> loaded_objects, raised |-> TRUE, made |-> d]
    ELSE LoadDraws(names, drawn, d + 1,
             loaded_objects \o
             [j \in 1..drawn[d][2] |->
                 [loadpos |-> Len(loaded_objects) + j - 1,
                  class_name |-> drawn[d][1],
                  class_id |-> IndexOf(names, drawn[d][1]),
                  counter |-> ResetInstanceCounter + Len(loaded_objects) + j,
                  loc |-> <<0, 0, 0>>]])

(***************************************************************************)
(* PhysicsSimulator.drop_objects                                           *)
(***************************************************************************)
\* resting places the physics engine can report: on the surface, beyond the bound
\* of the validation, sunk below the surface
SettleLocs == {<<0, 0, 30>>, <<1200, 0, 30>>, <<0, 0, -5>>}

\* corners of spawn_region, and the lowest bound-box z of a model before placement
SpawnPoints == {<<-400, -400>>, <<400, 400>>}

ZMinCases == {-50, 0}

\* `if loc[2] < 0.015: new_z = 0.02`
Raised(loc) == IF loc[3] < SettleThreshold THEN <<loc[1], loc[2], SettleHeight>> ELSE loc

Abs(x) == IF x < 0 THEN -x ELSE x

\* `loc[2] > 0 and abs(loc[0]) < 1.0 and abs(loc[1]) < 1.0`
IsValidPosition(loc) == loc[3] > 0 /\ Abs(loc[1]) < BoundXY /\ Abs(loc[2]) < BoundXY

(***************************************************************************)
(* SyntheticGenerator._attempt_generate_image, step by step                *)
(***************************************************************************)
\* LightingRandomizer.clear_lights: every tracked light is deleted from the engine
ClearLights(engine_lights, tracked) == engine_lights - Len(tracked)

\* a new attempt begins: the pose of frame 0, if any, is of an earlier attempt
Aged(frame0) == IF frame0 = ThisAttempt THEN EarlierAttempt ELSE frame0

\* the calls of an attempt that precede load_random_models
ComposeCalls == <<Call("clear_scene"), Call("clear_lights"),
                  Call("create_drawer_surface"), Call("reset_instance_counter")>>

\* clear_scene, clear_lights, create_drawer_surface, reset_instance_counter,
\* load_random_models
ComposeScene ==
    /\ phase = "compose"
    \* self.lighting.clear_lights()
    /\ lights' = <<>>
    \* `if not self.class_models: self.discover_models()`
    /\ \E listing \in Listings(model_dir) :
          class_names' = IF class_names = <<>> THEN DiscoverModels(listing)
                         ELSE class_names
    /\ IF model_dir = {} \/ config.min_per_scene > config.max_per_scene
       THEN \* load_random_models raises ValueError: no models found, or
            \* np.random.randint(low, high) with low >= high
            /\ FailAttempt("exception")
            /\ scene' = [surface |-> TRUE, loaded |-> 0, meshes |-> {},
                         lights |-> ClearLights(scene.lights, lights),
                         frame0 |-> Aged(scene.frame0)]
            /\ instance_counter' = ResetInstanceCounter
            /\ draws' = <<>>
            /\ calls' = ComposeCalls
       ELSE \E n \in config.min_per_scene..config.max_per_scene :
            \E drawn \in [1..n -> Draws(class_names')] :
               LET load == LoadDraws(class_names', drawn, 1, <<>>)
                   loaded_objects == load.objs
               IN  /\ draws' = SubSeq(drawn, 1, load.made)
                   /\ scene' = [surface |-> TRUE,
                                loaded |-> Len(loaded_objects),
                                meshes |-> {o.loadpos : o \in
                                    {loaded_objects[j] : j \in DOMAIN loaded_objects}},
                                lights |-> ClearLights(scene.lights, lights),
                                frame0 |-> Aged(scene.frame0)]
                   /\ instance_counter' = ResetInstanceCounter + Len(loaded_objects)
                   /\ IF load.raised
                      THEN /\ FailAttempt("exception")
                           /\ calls' = ComposeCalls
                      ELSE /\ objects' = loaded_objects
                           /\ calls' = Append(ComposeCalls, Call("load_random_models"))
                           /\ phase' = "drop"
                           /\ UNCHANGED <<segmap, annotations, matches, i, attempt,
                                          last, tries, onlyEmpty, abandoned>>
    /\ UNCHANGED <<Env, Files, start_idx, num, split, atStart, written, attempted,
                   Outcome, labelled>>

\* physics_sim.drop_objects(objects, surface)
DropObjects ==
    /\ phase = "drop"
    /\ IF config.physics_enabled
       THEN \E settled \in [DOMAIN objects -> SettleLocs] :
               objects' = [j \in DOMAIN objects |->
                              [objects[j] EXCEPT !.loc = Raised(settled[j])]]
       ELSE \E xy \in [DOMAIN objects -> SpawnPoints],
               z_min \in [DOMAIN objects -> ZMinCases] :
               objects' = [j \in DOMAIN objects |->
                              [objects[j] EXCEPT
                                  !.loc = <<xy[j][1], xy[j][2], -z_min[j]>>]]
    /\ calls' = Append(calls, Call("drop_objects"))
    /\ phase' = "validate"
    /\ UNCHANGED <<Env, Files, start_idx, num, Loop, segmap, annotations, matches,
                   scene, lights, History, Loader, Outcome, abandoned, labelled>>

\* plausible slip: the attempt goes on to the render with an empty list
NoneValidUnchecked(valid_objects) == FALSE

\* `if len(valid_objects) == 0`
NoneValid(valid_objects) == Len(valid_objects) = 0

\* the position check: invalid objects are deleted, no valid object returns False
ValidateObjects ==
    /\ phase = "validate"
    /\ LET valid_objects == SelectSeq(objects, LAMBDA o : IsValidPosition(o.loc))
           invalid_objects == SelectSeq(objects, LAMBDA o : ~IsValidPosition(o.loc))
       IN  /\ scene' = [scene EXCEPT !.meshes =
                           {valid_objects[j].loadpos : j \in DOMAIN valid_objects}]
           /\ calls' = calls \o [j \in DOMAIN invalid_objects |->
                                    Delete(invalid_objects[j].loadpos)]
           /\ IF NoneValid(valid_objects)
              THEN FailAttempt("no_valid")
              ELSE /\ objects' = valid_objects
                   /\ phase' = "render"
                   /\ UNCHANGED <<segmap, annotations, matches, i, attempt, last, tries,
                                  onlyEmpty, abandoned>>
    /\ UNCHANGED <<Env, Files, start_idx, num, split, atStart, written, attempted,
                   Loader, Outcome, labelled, lights>>

\* plausible slip: the segmentation output enabled once, in generate(), with the
\* normals and the depth outputs
RenderCallsEnabledOnce == <<Call("create_random_lights"), Call("generate_orbit_poses"),
                            Call("set_random_pose"), Call("render")>>

\* the calls of an attempt from the lights to the render
RenderCalls == <<Call("create_random_lights"), Call("generate_orbit_poses"),
                 Call("set_random_pose"), Call("enable_segmentation_output"),
                 Call("render")>>

\* np.random.randint(low, high): the integers from low up to, not including, high;
\* ValueError when there is none
RandInt(low, high) == low..(high - 1)

\* self.lights after create_random_lights: the key light, then the additional ones
CreateRandomLights(num_additional_lights) ==
    <<"key">> \o [j \in 1..num_additional_lights |-> "secondary"]

\* bproc.camera.add_camera_pose: the pose is appended to the frames of the engine,
\* whose first frame stays the one registered first
AddCameraPose(frame0) == IF frame0 = NoFrame THEN ThisAttempt ELSE frame0

\* create_random_lights, generate_orbit_poses, set_random_pose,
\* enable_segmentation_output, render
Render ==
    /\ phase = "render"
    /\ IF RandInt(config.num_lights[1], config.num_lights[2]) = {}
       THEN \* the key light is made and tracked, then np.random.randint raises
            /\ FailAttempt("exception")
            /\ lights' = <<"key">>
            /\ scene' = [scene EXCEPT !.lights = ClearLights(@, lights) + 1]
            /\ calls' = calls
       ELSE \E num_additional_lights \in
                    RandInt(config.num_lights[1], config.num_lights[2]) :
            /\ lights' = CreateRandomLights(num_additional_lights)
            /\ IF config.orbit_angles < 1
               THEN \* no pose is generated: np.random.randint(0) of set_random_pose
                    \* raises
                    /\ FailAttempt("exception")
                    /\ scene' = [scene EXCEPT
                                    !.lights = ClearLights(@, lights) + Len(lights')]
                    /\ calls' = calls \o SubSeq(RenderCalls, 1, 2)
               ELSE /\ segmap' \in RenderOutputs(scene.loaded, config.width,
                                                 config.height)
                    /\ scene' = [scene EXCEPT
                                    !.lights = ClearLights(@, lights) + Len(lights'),
                                    !.frame0 = AddCameraPose(@)]
                    /\ calls' = calls \o RenderCalls
                    /\ phase' = "annotate"
                    /\ UNCHANGED <<objects, annotations, matches, i, attempt, last,
                                   tries, onlyEmpty, abandoned>>
    /\ UNCHANGED <<Env, Files, start_idx, num, split, atStart, written,
                   attempted, Loader, Outcome, labelled>>

\* create_random_lights raises inside the making of a light: the engine holds the
\* new bproc.types.Light(), which a later line (the return of _create_key_light,
\* self.lights.append(light)) would have tracked
LightRaises ==
    /\ phase = "render"
    /\ \E tracked \in 0..Max(RandInt(config.num_lights[1], config.num_lights[2])
                               \cup {0}) :
          /\ lights' = SubSeq(CreateRandomLights(tracked), 1, tracked)
          /\ scene' = [scene EXCEPT !.lights = ClearLights(@, lights) + tracked + 1]
    /\ FailAttempt("exception")
    /\ calls' = calls
    /\ UNCHANGED <<Env, Files, start_idx, num, split, atStart, written,
                   attempted, Loader, Outcome, labelled>>

\* plausible slip: the check of the annotation list left out
NoAnnotationsUnchecked(found) == FALSE

\* `if len(annotations) == 0`
NoAnnotations(found) == Len(found) = 0

\* _generate_annotations_from_data and the check `len(annotations) == 0`
Annotate ==
    /\ phase = "annotate"
    /\ LET found == GenerateAnnotationsFromData(segmap, objects,
                                                config.width, config.height)
       IN  IF NoAnnotations(found)
           THEN FailAttempt("empty")
           ELSE /\ annotations' = [j \in DOMAIN found |-> found[j].ann]
                /\ matches' = [j \in DOMAIN found |->
                                  [loadpos |-> found[j].loadpos,
                                   listpos |-> found[j].listpos,
                                   inst |-> found[j].inst]]
                /\ phase' = "save_image"
                /\ UNCHANGED <<objects, segmap, i, attempt, last, tries, onlyEmpty,
                               abandoned>>
    /\ UNCHANGED <<Env, Files, start_idx, num, split, scene, lights,
                   atStart, written, attempted, Loader, Outcome, calls, labelled>>

\* Image.fromarray(image_data).save(image_path)
SaveImage ==
    /\ phase = "save_image"
    /\ images' = [images EXCEPT ![SplitName] = @ \cup {CurrentName}]
    /\ written' = written \cup {<<"image", SplitName, CurrentName>>}
    /\ phase' = "save_labels"
    /\ UNCHANGED <<Env, labels, outfiles, start_idx, num, Loop, Locals, scene, lights,
                   atStart, attempted, last, tries, onlyEmpty,
                   Loader, Outcome, calls, abandoned, labelled>>

\* self.annotator.save_annotations(annotations, label_path)
SaveLabels ==
    /\ phase = "save_labels"
    /\ labels' = [labels EXCEPT ![SplitName] =
                     {l \in @ : l.stem # CurrentName}
                     \cup {[stem |-> CurrentName, lines |-> annotations]}]
    /\ written' = written \cup {<<"label", SplitName, CurrentName>>}
    /\ labelled' = labelled \cup
          {<<annotations[j].class_id, objects[matches[j].listpos + 1].class_name>> :
              j \in DOMAIN annotations}
    /\ phase' = "cleanup"
    /\ UNCHANGED <<Env, images, outfiles, start_idx, num, Loop, Locals, scene, lights,
                   atStart, attempted, last, tries, onlyEmpty,
                   Loader, Outcome, calls, abandoned>>

\* the release of the render data, _log_memory_usage, _aggressive_memory_cleanup and
\* `return True`, on which _generate_single_image returns
ReturnTrue ==
    /\ phase = "cleanup"
    /\ last' = [split |-> SplitName, idx |-> ImageIdx, tries |-> tries,
                ok |-> TRUE, kind |-> "none", onlyEmpty |-> onlyEmpty]
    /\ onlyEmpty' = TRUE
    /\ i' = i + 1
    /\ phase' = "split"
    /\ objects' = <<>>
    /\ segmap' = NoData
    /\ annotations' = <<>>
    /\ matches' = <<>>
    /\ UNCHANGED <<Env, Files, start_idx, num, split, attempt, scene, lights,
                   atStart, written, attempted, tries,
                   Loader, Outcome, calls, abandoned, labelled>>

(***************************************************************************)
(* End of generate(): _save_class_names, config.to_yaml, the completion    *)
(* log and _save_generation_summary; then generate_command returns 0       *)
(***************************************************************************)
SaveClassNames ==
    /\ phase = "finish"
    \* get_class_names: `if not self.class_names: self.discover_models()`
    /\ \E listing \in Listings(model_dir) :
          class_names' = IF class_names = <<>> THEN DiscoverModels(listing)
                         ELSE class_names
    /\ classes_txt' = class_names'
    /\ outfiles' = outfiles \cup {"classes.txt", "config.yaml"}
    /\ phase' = "summary"
    /\ UNCHANGED <<Env, images, labels, start_idx, num, Loop, Locals, scene, lights, History,
                   instance_counter, draws, summary, exit_code, calls, abandoned,
                   labelled>>

SaveGenerationSummary ==
    /\ phase = "summary"
    /\ IF config.num_images = 0
       THEN \* elapsed_time / self.config.num_images raises ZeroDivisionError, which
            \* leaves generate(); main() returns 1
            /\ phase' = "crashed"
            /\ exit_code' = 1
            /\ UNCHANGED summary
       ELSE /\ summary' = [total_images |-> config.num_images,
                           train_images |-> NumTrain(config),
                           val_images |-> NumVal(config),
                           test_images |-> config.num_images - NumTrain(config)
                                               - NumVal(config),
                           num_classes |-> Len(class_names),
                           class_names |-> class_names]
            \* generate() returns, generate_command returns 0
            /\ exit_code' = 0
            /\ phase' = "done"
    /\ UNCHANGED <<Env, Files, start_idx, num, Loop, Locals, scene, lights, History,
                   Loader, classes_txt, calls, abandoned, labelled>>

\* the process has exited; the command is run again on the same output directory
NextRun ==
    /\ phase = "done"
    /\ runs < MaxRuns
    /\ phase' = "idle"
    /\ exit_code' = Running
    /\ UNCHANGED <<Env, Files, start_idx, num, Loop, Locals, scene, lights, History,
                   Loader, classes_txt, summary, calls, abandoned, labelled>>

Next ==
    \/ Construct
    \/ GenerateBegin
    \/ BeginImage
    \/ EndSplit
    \/ ComposeScene
    \/ DropObjects
    \/ ValidateObjects
    \/ Render
    \/ Annotate
    \/ SaveImage
    \/ SaveLabels
    \/ ReturnTrue
    \/ StepRaises
    \/ SaveClassNames
    \/ SaveGenerationSummary
    \/ NextRun

Spec == Init /\ [][Next]_vars

(***************************************************************************)
(* Properties of the retry loop and of the run (Spec)                      *)
(***************************************************************************)
\* C1: for one image index the attempts run one after another, the k-th being
\* attempt k-1 of the loop; a call that returned after a success made between 1 and
\* 5 attempts, a call that returned without success made exactly 5, whatever kinds
\* of failure occurred, and no state ever holds a 6th attempt.
C1_RetryBudget ==
    /\ tries <= max_retries
    /\ attempt < max_retries
    /\ phase \in AttemptPhases => tries = attempt + 1
    /\ last.split # "none" =>
          /\ last.ok => last.tries \in 1..max_retries
          /\ ~last.ok => /\ last.tries = max_retries
                         /\ last.kind \in {"no_valid", "empty", "exception"}

\* an image was given up after 5 attempts that failed in more than one way
C1_Witness ==
    /\ phase = "split"
    /\ last.split # "none"
    /\ ~last.ok
    /\ last.tries = max_retries
    /\ last.kind = "empty"
    /\ ~last.onlyEmpty

\* the image indices generate() plans for one split, and for the run, in order
PlannedOf(s) ==
    [k \in 1..(IF num[s] > 0 THEN num[s] ELSE 0) |-> <<s, start_idx[s] + k - 1>>]

Planned == PlannedOf("train") \o PlannedOf("val") \o PlannedOf("test")

IsPrefix(p, q) == Len(p) <= Len(q) /\ p = SubSeq(q, 1, Len(p))

\* C2: once generate() has begun, the run never leaves the loop over the planned
\* indices: the indices attempted so far are an initial part of train, then val, then
\* test, whatever the attempts did; when the splits are over every planned index
\* was attempted, and the run goes on to write classes.txt and the configuration.
\* The only state in which a run is abandoned is the failed constructor.
C2_RunNeverAborted ==
    /\ phase \in AttemptPhases \cup {"split", "finish", "done"} =>
          IsPrefix(attempted, Planned)
    /\ phase \in AttemptPhases =>
          /\ attempted # <<>>
          /\ attempted[Len(attempted)] = <<SplitName, ImageIdx>>
    /\ phase \in {"finish", "done"} => attempted = Planned
    /\ phase = "finish" => ENABLED SaveClassNames
    /\ phase = "done" => {"classes.txt", "config.yaml"} \subseteq outfiles
    /\ phase = "crashed" => attempted = <<>> /\ config.clear_output_dir = "missing"
    /\ phase = "split" => ENABLED (BeginImage \/ EndSplit)

\* a run in which every image of two splits failed reached the end-of-run persistence
C2_Witness ==
    /\ phase = "done"
    /\ written = {}
    /\ Len(attempted) = 2
    /\ attempted[1][1] # attempted[2][1]
    /\ {"classes.txt", "config.yaml"} \subseteq outfiles

\* the file entries of the current run that carry the name of an image
WrittenAs(s, stem) == {w \in written : w[2] = s /\ w[3] = stem}

\* C3: an attempt with an empty annotation list writes nothing, so an image whose 5
\* attempts all ended with an empty list leaves no file of its name in the images or
\* the labels directory of its split, and every label file written has a line.
C3_EmptyWritesNothing ==
    /\ \A s \in SplitNames : \A l \in labels[s] :
          <<"label", s, l.stem>> \in written => Len(l.lines) >= 1
    /\ (last.split # "none" /\ ~last.ok /\ last.onlyEmpty) =>
          /\ ImageName(last.split, last.idx) \notin images[last.split]
          /\ \A l \in labels[last.split] : l.stem # ImageName(last.split, last.idx)
          /\ WrittenAs(last.split, ImageName(last.split, last.idx)) = {}

\* an image was given up after 5 attempts with empty annotation lists, in a run that
\* wrote another image
C3_Witness ==
    /\ last.split # "none"
    /\ ~last.ok
    /\ last.onlyEmpty
    /\ last.tries = max_retries
    /\ written # {}

\* the images directory that __init__ scans for a split
Scanned(s) == IF config.clear_output_dir = "True" THEN {} ELSE atStart.images[s]

IndicesOf(dir) == {stem[Len(stem)].v : stem \in dir}

\* C4: the start index of a split is 0 when the images directory of the split holds
\* no image and the largest index in it plus one otherwise; nothing of another split
\* enters it.
C4_StartIndex ==
    phase \notin {"idle", "crashed"} =>
        \A s \in SplitNames :
            start_idx[s] = IF Scanned(s) = {} THEN 0
                           ELSE Max(IndicesOf(Scanned(s))) + 1

\* train holds the images 0..4 and val another image: train starts at 5
C4_Witness ==
    /\ phase = "ready"
    /\ config.clear_output_dir = "False"
    /\ atStart.images["train"] = PriorImages("train", 0..4)
    /\ atStart.images["val"] # {}
    /\ start_idx["train"] = 5
    /\ start_idx["val"] # 5

\* C5: without clearing, no file a run writes has a name that existed when the run
\* started, in the images or in the labels directory: its index in the split is
\* larger than every index the split held.
C5_NoOverwrite ==
    config.clear_output_dir = "False" =>
        \A w \in written :
            /\ w[3] \notin atStart.images[w[2]]
            /\ \A l \in atStart.labels[w[2]] : l.stem # w[3]
            /\ \A k \in IndicesOf(atStart.images[w[2]]) : w[3][Len(w[3])].v > k
            /\ \A l \in atStart.labels[w[2]] : w[3][Len(w[3])].v > l.stem[Len(l.stem)].v

\* a second run on a directory in which the first run left a gap at index 0
C5_Witness ==
    /\ runs = 2
    /\ config.clear_output_dir = "False"
    /\ ImageName("train", 0) \notin atStart.images["train"]
    /\ ImageName("train", 1) \in atStart.images["train"]
    /\ <<"image", "train", ImageName("train", 2)>> \in written

\* every planned image index of a split was given up after its last attempt
SplitFailed(s) ==
    /\ num[s] > 0
    /\ \A k \in DOMAIN PlannedOf(s) : PlannedOf(s)[k] \in abandoned

\* C13: the exit status of the generate command reports success when indices were
\* given up but every split with planned images produced one, and reports failure
\* when every image of a split failed.
C13_ExitStatus ==
    phase = "done" =>
        IF \E s \in SplitNames : SplitFailed(s)
        THEN exit_code # 0
        ELSE exit_code = 0

\* the images of a split that the current run wrote
ImagesWritten(s) == {w \in written : w[1] = "image" /\ w[2] = s}

\* the fields of the summary that hold the planned numbers, the classes and nothing
\* about failures
PlanFields == {"total_images", "train_images", "val_images", "test_images",
               "num_classes", "class_names"}

\* C14: the summary written at the end of a run holds the number of image indices
\* for which every attempt failed, and its train, val and test image counts are
\* the numbers of images the run wrote.
C14_SummaryCounts ==
    phase = "done" =>
        /\ \E f \in DOMAIN summary \ PlanFields : summary[f] = Cardinality(abandoned)
        /\ summary.train_images = Cardinality(ImagesWritten("train"))
        /\ summary.val_images = Cardinality(ImagesWritten("val"))
        /\ summary.test_images = Cardinality(ImagesWritten("test"))

\* C15: when discovery finds no class with a supported model file the run fails
\* before the first image attempt: no image index is attempted, no scene is
\* composed, no attempt of the retry budget is made, and the run does not reach
\* its normal end.
C15_NoModelsFailsEarly ==
    model_dir = {} =>
        /\ phase \notin AttemptPhases \cup {"finish", "summary", "done"}
        /\ attempted = <<>>
        /\ tries = 0
        /\ ~scene.surface
        /\ exit_code # 0

\* C30: constructing the generator from a validated configuration completes, and
\* it deletes no file of the output directory unless the clearing of the
\* directory is asked for; when it is, the deletion precedes the scan of the
\* start indices, so that the three of them are 0.
C30_ConstructionCompletes ==
    [][Construct =>
          /\ phase' = "ready"
          /\ config.clear_output_dir # "True" =>
                images' = images /\ labels' = labels /\ outfiles' = outfiles
          /\ config.clear_output_dir = "True" =>
                \A s \in SplitNames : start_idx'[s] = 0]_vars

\* C27: whenever _generate_single_image has returned, every image file that the
\* run has written has a label file of the same stem written by the run, and
\* every such label file has its image, even when a step of an attempt, the
\* writing of a file included, raises an exception.
C27_ImagesPairedWithLabels ==
    phase \in {"split", "finish", "summary", "done"} =>
        \A w \in written :
            \E v \in written : v[1] # w[1] /\ v[2] = w[2] /\ v[3] = w[3]

(***************************************************************************)
(* SceneSpec: the last attempt of the only image of a run, for every scene *)
(* and every render of a small image, and the end of that run.             *)
(***************************************************************************)
SceneInit ==
    /\ phase = "compose"
    /\ model_dir = {"awl", "blade"}
    /\ \E w \in 1..MaxWidth, h \in 1..MaxHeight, m \in 1..MaxObjects, ph \in BOOLEAN :
          config = [num_images |-> 1,
                    train_split |-> 100, val_split |-> 0, test_split |-> 0,
                    width |-> w, height |-> h,
                    min_per_scene |-> 1, max_per_scene |-> m,
                    orbit_angles |-> 8, num_lights |-> <<2, 3>>,
                    physics_enabled |-> ph,
                    clear_output_dir |-> "False"]
    /\ runs = 1
    /\ images = NoFiles
    /\ labels = NoFiles
    /\ outfiles = {}
    /\ start_idx = [s \in SplitNames |-> 0]
    /\ num = [s \in SplitNames |-> IF s = "train" THEN 1 ELSE 0]
    /\ split = 1
    /\ i = 0
    /\ attempt = max_retries - 1
    /\ tries = max_retries
    /\ objects = <<>>
    /\ segmap = NoData
    /\ annotations = <<>>
    /\ matches = <<>>
    /\ scene = [surface |-> TRUE, loaded |-> 0, meshes |-> {}, lights |-> 0,
                frame0 |-> NoFrame]
    /\ lights = <<>>
    /\ atStart = [images |-> NoFiles, labels |-> NoFiles]
    /\ written = {}
    /\ attempted = <<<<"train", 0>>>>
    /\ last = NoResult
    /\ onlyEmpty = TRUE
    /\ \E listing \in Listings(model_dir) : class_names = DiscoverModels(listing)
    /\ instance_counter = 0
    /\ draws = <<>>
    /\ classes_txt = <<>>
    /\ summary = NoSummary
    /\ exit_code = Running
    /\ calls = <<>>
    /\ abandoned = {}
    /\ labelled = {}

SceneNext ==
    \/ ComposeScene
    \/ DropObjects
    \/ ValidateObjects
    \/ Render
    \/ Annotate
    \/ SaveImage
    \/ SaveLabels
    \/ ReturnTrue
    \/ StepRaises
    \/ EndSplit
    \/ SaveClassNames
    \/ SaveGenerationSummary

SceneSpec == SceneInit /\ [][SceneNext]_vars

(***************************************************************************)
(* Properties of the annotation of one scene (SceneSpec)                   *)
(***************************************************************************)
\* the pixels of the current segmentation map that carry an instance id
MaskOf(id) == {p \in DOMAIN segmap : segmap[p] = id}

\* a mask that is empty or lies within a single row or a single column
Degenerate(mask) ==
    \/ Cardinality({p[1] : p \in mask}) <= 1
    \/ Cardinality({p[2] : p \in mask}) <= 1

\* the ids of the current map, and the ids expected for the current objects
IdsInPlay == {segmap[p] : p \in DOMAIN segmap} \cup (2..(Len(objects) + 1))

ListPositions == 0..(Len(objects) - 1)

\* C7: every annotated object is matched to the instance id 2 plus its 0-based
\* position in the load order of the scene, also when an object loaded before it
\* was removed by the position validation.
C7_LoadOrderMatch ==
    \A j \in DOMAIN matches : matches[j].inst = matches[j].loadpos + 2

\* C8: when the annotations of a render are generated, an object whose expected id
\* has no pixel in the map yields no record, every object whose expected id has a
\* proper region yields one whatever was skipped before it, and a list with such an
\* object is never reported empty.
C8_SkipAndContinue ==
    [][phase = "annotate" =>
          /\ phase' = "save_image" =>
                /\ Len(annotations') = Len(matches')
                /\ \A idx \in ListPositions :
                      /\ MaskOf(idx + 2) = {} =>
                            \A j \in DOMAIN matches' : matches'[j].listpos # idx
                      /\ ~Degenerate(MaskOf(idx + 2)) =>
                            \E j \in DOMAIN matches' :
                                /\ matches'[j].listpos = idx
                                /\ matches'[j].inst = idx + 2
          /\ (\E idx \in ListPositions : ~Degenerate(MaskOf(idx + 2))) =>
                ~(last' # last /\ last'.kind = "empty")]_vars

\* two objects, the id of the first absent from the map, the second annotated
C8_Witness ==
    /\ phase = "save_image"
    /\ Len(objects) = 2
    /\ MaskOf(2) = {}
    /\ Len(annotations) = 1
    /\ matches[1].listpos = 1
    /\ Cardinality(UniqueInstances(segmap) \ {1}) # Len(objects)

\* C9: _mask_to_bbox returns no box for an empty mask and for a mask whose box has
\* x_max <= x_min or y_max <= y_min; every record of the annotation list has a
\* positive width and a positive height and comes from a mask that is not degenerate.
C9_NoDegenerateBox ==
    /\ segmap # NoData =>
          \A id \in IdsInPlay :
              Degenerate(MaskOf(id)) => MaskToBBox(MaskOf(id)) = NoBBox
    /\ \A j \in DOMAIN annotations :
          annotations[j].width > 0 /\ annotations[j].height > 0
    /\ \A j \in DOMAIN matches : ~Degenerate(MaskOf(matches[j].inst))

\* one object annotated, another with a non-empty mask of a single row or column
C9_Witness ==
    /\ phase = "save_image"
    /\ Len(annotations) = 1
    /\ \E idx \in ListPositions :
          MaskOf(idx + 2) # {} /\ Degenerate(MaskOf(idx + 2))

InUnitRange(ann) ==
    /\ ann.x_center \in 0..Million
    /\ ann.y_center \in 0..Million
    /\ ann.width \in 0..Million
    /\ ann.height \in 0..Million

\* C10: for every mask of the map that is not degenerate, and for every record
\* written, x_center, y_center, width and height lie between 0 and 1.
C10_FieldsInUnitRange ==
    /\ \A j \in DOMAIN annotations : InUnitRange(annotations[j])
    /\ segmap # NoData =>
          \A id \in IdsInPlay :
              MaskToBBox(MaskOf(id)) # NoBBox =>
                  InUnitRange(BBoxToYoloFormat(MaskToBBox(MaskOf(id)), 0,
                                               config.width, config.height))

\* the object covers the whole of the widest and highest image
C10_Witness ==
    /\ phase = "save_image"
    /\ config.width = MaxWidth
    /\ config.height = MaxHeight
    /\ \A p \in DOMAIN segmap : segmap[p] = 2
    /\ Len(annotations) = 1
    /\ annotations[1].width = Format6(MaxWidth - 1, MaxWidth)
    /\ annotations[1].height = Format6(MaxHeight - 1, MaxHeight)

\* the number of mesh objects that the draws of the last load imported
RECURSIVE MeshesOf(_, _)
MeshesOf(drawn, d) ==
    IF d > Len(drawn) THEN 0
    ELSE (IF drawn[d][2] > 0 THEN drawn[d][2] ELSE 0) + MeshesOf(drawn, d + 1)

\* C16: when the model file of a draw fails to load, because the importer raises
\* or yields no mesh object, load_random_models skips the draw and goes on: with
\* models present the load step always hands the objects of the successful draws
\* to the next step of the attempt, and never ends the attempt.
C16_FailedDrawSkipped ==
    [][(ComposeScene /\ model_dir # {}) =>
          /\ phase' = "drop"
          /\ Len(draws') \in config.min_per_scene..config.max_per_scene
          /\ Len(objects') = MeshesOf(draws', 1)
          /\ \A d \in DOMAIN draws' :
                draws'[d][2] > 0 =>
                    \E j \in DOMAIN objects' : objects'[j].class_name = draws'[d][1]]_vars

\* the call c is among the calls completed in the current attempt
Occurs(c, trace) == \E k \in DOMAIN trace : trace[k] = c

\* a call of the lighting setup, the camera poses, the segmentation or the render
RenderCallIn(trace) == \E k \in DOMAIN RenderCalls : Occurs(RenderCalls[k], trace)

\* C19: when no object of the attempt passes the position validation the attempt
\* ends as a failure with no lighting, camera pose, segmentation or render call made
\* in it; and when a render is made, every object handed on has a valid position
\* and every loaded object that failed the rule was deleted from the scene before.
C19_NoRenderWithoutValidObject ==
    [][/\ (phase = "validate" /\
            \A j \in DOMAIN objects : ~IsValidPosition(objects[j].loc)) =>
              /\ phase' \in {"compose", "split"}
              /\ phase' = "split" => (last'.split # "none" /\ ~last'.ok)
              /\ phase' = "compose" => attempt' = attempt + 1
              /\ ~RenderCallIn(calls')
              /\ (phase' = "split" /\ last'.kind = "no_valid") =>
                    \A j \in DOMAIN objects :
                        /\ objects[j].loadpos \notin scene'.meshes
                        /\ Occurs(Delete(objects[j].loadpos), calls')
       /\ (phase = "render" /\ phase' = "annotate") =>
              /\ objects # <<>>
              /\ \A j \in DOMAIN objects : IsValidPosition(objects[j].loc)
              /\ ~RenderCallIn(calls)
              /\ Occurs(Call("render"), calls')
              /\ scene.meshes = {objects[j].loadpos : j \in DOMAIN objects}
              /\ \A k \in 0..(scene.loaded - 1) :
                    k \notin scene.meshes => Occurs(Delete(k), calls)]_vars

\* two objects were loaded, neither passed the validation: both were deleted and
\* the attempt failed without a call after the deletions
C19_Witness ==
    /\ phase = "split"
    /\ last.kind = "no_valid"
    /\ scene.loaded = 2
    /\ scene.meshes = {}
    /\ calls = ComposeCalls \o <<Call("load_random_models"), Call("drop_objects"),
                                 Delete(0), Delete(1)>>

\* C20: the instance counter is reset before the load of each scene so that the
\* first object loaded gets instance id 2 and the k-th gets k+1: the ids of a scene
\* are contiguous from 2 in load order, 1 stays with the surface, and no two
\* objects share an id.
C20_InstanceIdsFromTwo ==
    phase = "drop" =>
        /\ \A j \in DOMAIN objects :
              /\ objects[j].counter = objects[j].loadpos + 2
              /\ objects[j].counter # 1
        /\ \A j, k \in DOMAIN objects :
              objects[j].counter = objects[k].counter => j = k

\* the lines of the label file of the current image, as save_annotations wrote them
SavedLines == IF \E l \in labels[SplitName] : l.stem = CurrentName
              THEN (CHOOSE l \in labels[SplitName] : l.stem = CurrentName).lines
              ELSE <<>>

\* C11: a box encoded with six decimals, saved, read back and decoded to pixel
\* corners gives the class id it was written with and corners within half a pixel
\* of the corners of the box.
C11_RoundTrip ==
    phase = "cleanup" =>
        \A j \in DOMAIN SavedLines :
            LET bbox == MaskToBBox(MaskOf(matches[j].inst))
                back == DecodeLine(SavedLines[j], config.width, config.height)
            IN  /\ back.class_id = objects[matches[j].listpos + 1].class_id
                /\ 2 * Abs(back.x_min - bbox[1]) <= 1
                /\ 2 * Abs(back.y_min - bbox[2]) <= 1
                /\ 2 * Abs(back.x_max - bbox[3]) <= 1
                /\ 2 * Abs(back.y_max - bbox[4]) <= 1

\* the class names of the model directory in ascending order
SortedClasses ==
    CHOOSE q \in Listings(model_dir) :
        \A m, n \in DOMAIN q : m < n => Before(q[m], q[n])

\* C12: the class_id of every label line written during a run is the 0-based
\* position of the class name of its object in the sorted list of the discovered
\* classes, whatever the order of the directory listing, and the line of that
\* position in the classes.txt written at the end of the run is that class name.
C12_ClassIdIsSortedPosition ==
    /\ \A p \in labelled :
          /\ p[1] + 1 \in DOMAIN SortedClasses
          /\ SortedClasses[p[1] + 1] = p[2]
          /\ phase = "done" =>
                /\ p[1] + 1 \in DOMAIN classes_txt
                /\ classes_txt[p[1] + 1] = p[2]
    /\ phase = "cleanup" =>
          \A j \in DOMAIN SavedLines :
              SortedClasses[SavedLines[j].class_id + 1] =
                  objects[matches[j].listpos + 1].class_name

\* a run that wrote a line for an object of the second class and then classes.txt
C12_Witness ==
    /\ phase = "done"
    /\ labelled = {<<1, "blade">>}
    /\ classes_txt = <<"awl", "blade">>
    /\ "classes.txt" \in outfiles

\* C29: with the physics turned off every object that the flat placement has put
\* down passes the position check of the attempt, whatever the place of the origin
\* of its model relative to its lowest vertex, so that an attempt that loaded at
\* least one object is never stopped by the validation.
C29_FlatPlacementValid ==
    /\ (~config.physics_enabled /\ phase = "validate") =>
          \A j \in DOMAIN objects : IsValidPosition(objects[j].loc)
    /\ (~config.physics_enabled /\ scene.loaded >= 1) => last.kind # "no_valid"

(***************************************************************************)
(* SplitSpec: the split sizes of generate() for every accepted ratio triple*)
(***************************************************************************)
RatioValues == {0, 1, 15, 16, 33, 34, 50, 51, 70, 100}

\* a total for which one hundredth of excess in the ratios is a whole image
\* (100 is the default of num_images)
LargeTotals == {100}

\* `for i in range(num_images)`: the number of values of i
RangeLen(n) == IF n > 0 THEN n ELSE 0

SplitInit ==
    /\ InitCommon
    /\ phase = "ready"
    /\ model_dir = {"awl"}
    /\ images = NoFiles
    /\ labels = NoFiles
    /\ \E n \in (1..MaxTotal) \cup LargeTotals,
          tr \in RatioValues, va \in RatioValues, te \in RatioValues :
          /\ ValidDataset(tr, va, te)
          /\ config = [num_images |-> n,
                       train_split |-> tr, val_split |-> va, test_split |-> te,
                       width |-> 2, height |-> 2,
                       min_per_scene |-> 1, max_per_scene |-> 1,
                       orbit_angles |-> 8, num_lights |-> <<2, 3>>,
                       physics_enabled |-> TRUE,
                       clear_output_dir |-> "False"]

SplitNext == GenerateBegin

SplitSpec == SplitInit /\ [][SplitNext]_vars

C26_CountsCoverTotal ==
    phase = "split" =>
        /\ \A s \in SplitNames : num[s] >= 0
        /\ RangeLen(num["train"]) + RangeLen(num["val"]) + RangeLen(num["test"])
              = config.num_images

(***************************************************************************)
(* ConfigSpec: GenerationConfig.from_yaml on the data of a YAML file       *)
(***************************************************************************)
\* pairs read for a range: minimum below, equal to and above the maximum
RangeCases == {<<1, 2>>, <<2, 2>>, <<3, 2>>}

ConfigInit ==
    /\ InitCommon
    /\ phase = "load"
    /\ model_dir = {"awl"}
    /\ images = NoFiles
    /\ labels = NoFiles
    /\ \E nadir \in RangeCases, distance \in RangeCases, nlights \in RangeCases,
          intensity \in RangeCases, color_temp \in RangeCases, scale \in RangeCases,
          orbit \in {0, 8}, n \in {0, 1}, per_scene \in {<<1, 1>>, <<2, 1>>},
          r \in {<<70, 15, 15>>, <<70, 15, 10>>} :
          config = [num_images |-> n,
                    train_split |-> r[1], val_split |-> r[2], test_split |-> r[3],
                    nadir_angle_range |-> nadir, distance_range |-> distance,
                    orbit_angles |-> orbit,
                    num_lights |-> nlights, intensity_range |-> intensity,
                    color_temp_range |-> color_temp,
                    min_per_scene |-> per_scene[1], max_per_scene |-> per_scene[2],
                    scale_range |-> scale]

\* config = GenerationConfig.from_yaml(args.config); a ValidationError leaves
\* generate_command and main() returns 1
FromYaml ==
    /\ phase = "load"
    /\ IF ValidGeneration(config)
       THEN /\ phase' = "loaded"
            /\ UNCHANGED exit_code
       ELSE /\ phase' = "rejected"
            /\ exit_code' = 1
    /\ UNCHANGED <<Env, Files, start_idx, num, Loop, Locals, scene, lights, History,
                   Loader, classes_txt, summary, calls, abandoned, labelled>>

ConfigNext == FromYaml

ConfigSpec == ConfigInit /\ [][ConfigNext]_vars

\* the ranges that the configuration declares
DeclaredRanges(data) ==
    {data.nadir_angle_range, data.distance_range, data.num_lights,
     data.intensity_range, data.color_temp_range, data.scale_range}

\* C17: a configuration that passed validation has, in each of its declared
\* ranges (camera nadir angle and distance, lighting count, intensity and colour
\* temperature, model scale), a minimum strictly less than the maximum.
C17_RangesValidated ==
    phase = "loaded" => \A v \in DeclaredRanges(config) : v[1] < v[2]

(***************************************************************************)
(* OverrideSpec: generate_command on a loaded configuration, with          *)
(* command-line overrides, and the run that follows                        *)
(***************************************************************************)
\* args.<option> is None: the option was not given
NotGiven == -1

\* values given for --num-images, --camera-angles and --max-objects
NumImagesArgs == {NotGiven, 0}

CameraAnglesArgs == {NotGiven, 0}

MaxObjectsArgs == {NotGiven, 0}

OverrideInit ==
    /\ InitCommon
    /\ phase = "loaded"
    /\ model_dir = {"awl"}
    /\ images = NoFiles
    /\ labels = NoFiles
    /\ \E c \in {"missing", "False"} :
          config = [num_images |-> 1,
                    train_split |-> 100, val_split |-> 0, test_split |-> 0,
                    width |-> 2, height |-> 2,
                    min_per_scene |-> 1, max_per_scene |-> 1,
                    orbit_angles |-> 8, num_lights |-> <<2, 3>>,
                    physics_enabled |-> TRUE,
                    clear_output_dir |-> c]

\* `if args.num_images is not None: config.num_images = args.num_images`, likewise
\* config.camera.orbit_angles and config.models.max_per_scene: plain assignments
\* to the validated objects
ApplyOverrides ==
    /\ phase = "loaded"
    /\ \E num_images \in NumImagesArgs, camera_angles \in CameraAnglesArgs,
          max_objects \in MaxObjectsArgs :
          config' = [config EXCEPT
                        !.num_images = IF num_images # NotGiven THEN num_images ELSE @,
                        !.orbit_angles = IF camera_angles # NotGiven THEN camera_angles
                                         ELSE @,
                        !.max_per_scene = IF max_objects # NotGiven THEN max_objects
                                          ELSE @]
    /\ phase' = "idle"
    /\ UNCHANGED <<model_dir, runs, Files, start_idx, num, Loop, Locals, scene, lights, History,
                   Loader, Outcome, calls, abandoned, labelled>>

OverrideNext ==
    \/ ApplyOverrides
    \/ Construct
    \/ GenerateBegin
    \/ BeginImage
    \/ EndSplit
    \/ ComposeScene
    \/ DropObjects
    \/ ValidateObjects
    \/ Render
    \/ Annotate
    \/ SaveImage
    \/ SaveLabels
    \/ ReturnTrue
    \/ StepRaises
    \/ SaveClassNames
    \/ SaveGenerationSummary

OverrideSpec == OverrideInit /\ [][OverrideNext]_vars

\* the invariants that validation establishes, on the fields generation reads
RunInvariants(cfg) ==
    /\ cfg.min_per_scene <= cfg.max_per_scene
    /\ cfg.orbit_angles >= 1
    /\ cfg.num_images >= 1
    /\ ValidDataset(cfg.train_split, cfg.val_split, cfg.test_split)

\* C18: the configuration a run generates with satisfies the validated invariants
\* (min_per_scene <= max_per_scene, orbit_angles >= 1, num_images >= 1, ratios
\* summing to 1 within tolerance), also after command-line overrides: with a
\* violating combination no image is attempted and the run does not go through
\* generation to its end.
C18_ValidatedWhenRunning ==
    /\ phase \in AttemptPhases => RunInvariants(config)
    /\ (phase # "loaded" /\ ~RunInvariants(config)) =>
          /\ attempted = <<>>
          /\ phase \notin {"split", "finish", "summary", "done"}

(***************************************************************************)
(* RetrySpec: one run of two train images with every attempt of each, on a *)
(* small image, for the engine state that one attempt leaves to the next   *)
(* and the order of the engine calls within each attempt                   *)
(***************************************************************************)
\* num_lights as validation lets it through: a proper range, and min = max
LightCases == {<<1, 2>>, <<2, 2>>}

RetryInit ==
    /\ InitCommon
    /\ phase = "idle"
    /\ model_dir = {"awl"}
    /\ images = NoFiles
    /\ labels = NoFiles
    /\ \E num_lights \in LightCases :
          config = [num_images |-> MaxImages,
                    train_split |-> 100, val_split |-> 0, test_split |-> 0,
                    width |-> 2, height |-> 2,
                    min_per_scene |-> 1, max_per_scene |-> MaxObjects,
                    orbit_angles |-> 8, num_lights |-> num_lights,
                    physics_enabled |-> TRUE,
                    clear_output_dir |-> "False"]

RetryNext ==
    \/ Construct
    \/ GenerateBegin
    \/ BeginImage
    \/ EndSplit
    \/ ComposeScene
    \/ DropObjects
    \/ ValidateObjects
    \/ Render
    \/ LightRaises
    \/ Annotate
    \/ SaveImage
    \/ SaveLabels
    \/ ReturnTrue
    \/ StepRaises
    \/ SaveClassNames
    \/ SaveGenerationSummary

RetrySpec == RetryInit /\ [][RetryNext]_vars

\* C21: every completed call of create_random_lights leaves exactly one key light
\* plus N secondary lights tracked, where N ranges over exactly the integers from
\* the minimum to the maximum of num_lights, both included; with the minimum equal
\* to the maximum the call makes that many lights and does not fail.
C21_LightCount ==
    /\ Occurs(Call("create_random_lights"), calls) =>
          \E n \in config.num_lights[1]..config.num_lights[2] :
              lights = CreateRandomLights(n)
    /\ (phase = "render" /\ config.num_lights[1] <= config.num_lights[2]) =>
          \A n \in config.num_lights[1]..config.num_lights[2] :
              ENABLED (Render /\ lights' = CreateRandomLights(n)
                              /\ Occurs(Call("create_random_lights"), calls'))

\* C24: at the point where an attempt loads its models the scene holds no mesh
\* object and no light of an earlier attempt, whether that attempt succeeded,
\* failed the validation, had no annotation or raised an exception part-way: only
\* the fresh surface is there, and the lighting randomizer tracks no light.
C24_FreshSceneAtLoad ==
    [][ComposeScene =>
          /\ scene'.surface
          /\ scene'.meshes = 0..(scene'.loaded - 1)
          /\ scene'.lights = 0
          /\ lights' = <<>>]_vars

\* C28: the image and the segmentation map that an attempt uses, element 0 of the
\* render output, are rendered from the camera pose selected in that same
\* attempt: the poses registered by earlier attempts are no longer active, and a
\* render covers exactly the one pose of the current batch.
C28_RenderUsesCurrentPose ==
    phase \in {"annotate", "save_image", "save_labels", "cleanup"} =>
        scene.frame0 = ThisAttempt

\* the place of the call c in the trace of the current attempt
PositionOf(c) == CHOOSE k \in DOMAIN calls : calls[k] = c

\* C22: in every attempt that renders, the surface is created before any model is
\* loaded, and the segmentation output is enabled after the surface and all the
\* models of the attempt have been loaded, dropped and validated (the deletions of
\* the validation included) and before the render call; the enabling is a call of
\* the attempt itself, made again in every attempt that renders.
C22_SegmentationAfterObjects ==
    Occurs(Call("render"), calls) =>
        /\ Occurs(Call("create_drawer_surface"), calls)
        /\ Occurs(Call("load_random_models"), calls)
        /\ Occurs(Call("enable_segmentation_output"), calls)
        /\ LET s == PositionOf(Call("create_drawer_surface"))
               l == PositionOf(Call("load_random_models"))
               e == PositionOf(Call("enable_segmentation_output"))
               r == PositionOf(Call("render"))
           IN  /\ s < l /\ l < e /\ e < r
               /\ \A k \in DOMAIN calls :
                     /\ calls[k] = Call("drop_objects") => (l < k /\ k < e)
                     /\ calls[k][1] = "delete" => (l < k /\ k < e)
                     /\ calls[k] = Call("enable_segmentation_output") => k = e
                     /\ calls[k] = Call("render") => k = r

\* the second attempt of an image renders after the validation deleted an object
C22_Witness ==
    /\ phase = "annotate"
    /\ attempt = 1
    /\ Occurs(Delete(0), calls)
    /\ Occurs(Call("render"), calls)

(***************************************************************************)
(* ScanSpec: the constructor on a train images directory that holds, next  *)
(* to images of earlier runs, other files whose name starts with "train_"  *)
(***************************************************************************)
\* train_000000, train_000003, and train_7, train_0000012, train_extra_000009,
\* train_backup
ScanNames ==
    {ImageName("train", 0), ImageName("train", 3),
     <<Word("train"), Numeral(1, 7)>>,
     <<Word("train"), Numeral(7, 12)>>,
     <<Word("train"), Word("extra"), Numeral(6, 9)>>,
     <<Word("train"), Word("backup")>>}

ScanInit ==
    /\ InitCommon
    /\ phase = "idle"
    /\ model_dir = {"awl"}
    /\ labels = NoFiles
    /\ \E dir \in SUBSET ScanNames :
          images = [s \in SplitNames |-> IF s = "train" THEN dir ELSE {}]
    /\ \E c \in {"True", "False"} :
          config = [num_images |-> 1,
                    train_split |-> 100, val_split |-> 0, test_split |-> 0,
                    width |-> 2, height |-> 1,
                    min_per_scene |-> 1, max_per_scene |-> 1,
                    orbit_angles |-> 8, num_lights |-> <<2, 3>>,
                    physics_enabled |-> TRUE,
                    clear_output_dir |-> c]

ScanNext == Construct

ScanSpec == ScanInit /\ [][ScanNext]_vars

\* the indices of the files named split_name, "_" and exactly six digits
SixDigitIndices(dir, split_name) ==
    {stem[2].v : stem \in {e \in dir : /\ Len(e) = 2
                                       /\ e[1] = Word(split_name)
                                       /\ e[2].k = "num"
                                       /\ e[2].w = 6}}

\* C23: the start index of a split is computed only from the files whose name is
\* the split name, an underscore and exactly six digits; any other file of the
\* images directory whose name starts with the split name (fewer or more digits,
\* further parts before a trailing number) does not change it.
C23_OnlySixDigitNames ==
    phase = "ready" =>
        \A s \in SplitNames :
            start_idx[s] = IF SixDigitIndices(images[s], s) = {} THEN 0
                           ELSE Max(SixDigitIndices(images[s], s)) + 1

(***************************************************************************)
(* LoadSpec: one run of one image drawn from a class whose model file      *)
(* imports as up to two mesh objects                                       *)
(***************************************************************************)
LoadInit ==
    /\ InitCommon
    /\ phase = "idle"
    /\ model_dir = {MultiMeshClass}
    /\ images = NoFiles
    /\ labels = NoFiles
    /\ \E h \in 1..MaxHeight :
          config = [num_images |-> 1,
                    train_split |-> 100, val_split |-> 0, test_split |-> 0,
                    width |-> 2, height |-> h,
                    min_per_scene |-> 1, max_per_scene |-> 1,
                    orbit_angles |-> 8, num_lights |-> <<2, 3>>,
                    physics_enabled |-> TRUE,
                    clear_output_dir |-> "False"]

LoadNext == RetryNext

LoadSpec == LoadInit /\ [][LoadNext]_vars

\* C25: the number of objects that load_random_models returns for a scene never
\* exceeds the number of draws, so that a scene never holds more than
\* max_per_scene objects and an image never gets more than max_per_scene
\* annotation lines, whatever number of mesh objects a model file imports as.
C25_AtMostMaxPerScene ==
    /\ Len(objects) <= Len(draws)
    /\ scene.loaded <= config.max_per_scene
    /\ Cardinality(scene.meshes) <= config.max_per_scene
    /\ Len(annotations) <= config.max_per_scene
    /\ \A s \in SplitNames : \A l \in labels[s] : Len(l.lines) <= config.max_per_scene

====
